---- MODULE Spec2Model ----
(***************************************************************************)
(* Model of hardware_monitor/sensor.py: the sensor-tree parser              *)
(* (HardwareDataParser), the poll cycle (async_update_data) and the        *)
(* published entities (HardwareMonitorSensor).                             *)
(*                                                                         *)
(* Python strings are TLA+ strings, taken apart with Len, SubSeq and \o.   *)
(* JSON values are tagged records; every kind has its own field name so    *)
(* values of different kinds can sit in one set:                           *)
(*   null  [t |-> "null"]            string [t |-> "str",  s |-> "..."]    *)
(*   bool  [t |-> "bool", b |-> ..]  number [t |-> "num",  repr |-> "37"]  *)
(*   list  [t |-> "list", items |-> <<...>>]                               *)
(*   map   [t |-> "map",  f |-> [SensorId |-> ..., Children |-> ...]]      *)
(* A number carries its Python str() form, which is all the parser uses.   *)
(* A Python float is [t |-> "float", m |-> m, e |-> e], the decimal        *)
(* m * 10^e with m not divisible by 10 (0 is m = 0, e = 0); None is        *)
(* [t |-> "None"].                                                         *)
(***************************************************************************)
EXTENDS Integers, Sequences, FiniteSets, TLC

(* ------------------------------ strings ------------------------------- *)

UpperChars == "ABCDEFGHIJKLMNOPQRSTUVWXYZ"
LowerChars == "abcdefghijklmnopqrstuvwxyz"
DigitChars == "0123456789"

CharAt(s, i) == SubSeq(s, i, i)

\* 0 when c is not a character of alphabet, else its position in it
IndexIn(alphabet, c) ==
  IF \E i \in 1..Len(alphabet) : CharAt(alphabet, i) = c
  THEN CHOOSE i \in 1..Len(alphabet) : CharAt(alphabet, i) = c
  ELSE 0

LowerChar(c) ==
  IF IndexIn(UpperChars, c) = 0 THEN c ELSE CharAt(LowerChars, IndexIn(UpperChars, c))

\* str.lower() on ASCII text
RECURSIVE Lower(_)
Lower(s) ==
  IF Len(s) = 0 THEN "" ELSE LowerChar(CharAt(s, 1)) \o Lower(SubSeq(s, 2, Len(s)))

\* str.strip(ch): drop every leading and trailing ch
RECURSIVE LStrip(_, _)
LStrip(s, ch) ==
  IF Len(s) > 0 /\ CharAt(s, 1) = ch THEN LStrip(SubSeq(s, 2, Len(s)), ch) ELSE s

RECURSIVE RStrip(_, _)
RStrip(s, ch) ==
  IF Len(s) > 0 /\ CharAt(s, Len(s)) = ch THEN RStrip(SubSeq(s, 1, Len(s) - 1), ch) ELSE s

Strip(s, ch) == RStrip(LStrip(s, ch), ch)

\* str.split(sep) for a one-character sep: "" gives <<"">>, "a//b" gives <<"a","","b">>
RECURSIVE SplitFrom(_, _, _)
SplitFrom(s, sep, cur) ==
  IF Len(s) = 0 THEN <<cur>>
  ELSE IF CharAt(s, 1) = sep
       THEN <<cur>> \o SplitFrom(SubSeq(s, 2, Len(s)), sep, "")
       ELSE SplitFrom(SubSeq(s, 2, Len(s)), sep, cur \o CharAt(s, 1))

Split(s, sep) == SplitFrom(s, sep, "")

IsSpace(c) == c = " " \/ c = "\t" \/ c = "\n"

\* str.split() without argument: runs of whitespace separate, no empty tokens
RECURSIVE SplitWsFrom(_, _)
SplitWsFrom(s, cur) ==
  IF Len(s) = 0 THEN (IF cur = "" THEN <<>> ELSE <<cur>>)
  ELSE IF IsSpace(CharAt(s, 1))
       THEN (IF cur = "" THEN <<>> ELSE <<cur>>) \o SplitWsFrom(SubSeq(s, 2, Len(s)), "")
       ELSE SplitWsFrom(SubSeq(s, 2, Len(s)), cur \o CharAt(s, 1))

SplitWs(s) == SplitWsFrom(s, "")

\* Python's  p in s
Contains(s, p) ==
  \E i \in 1..(Len(s) - Len(p) + 1) : SubSeq(s, i, i + Len(p) - 1) = p

\* str.startswith
StartsWith(s, p) == Len(s) >= Len(p) /\ SubSeq(s, 1, Len(p)) = p

(* ------------------------------- floats ------------------------------- *)

PyNone == [t |-> "None"]
FloatSpecial(name) == [t |-> "float", special |-> name]

RECURSIVE NormFloat(_, _)
NormFloat(m, e) ==
  IF m = 0 THEN [t |-> "float", m |-> 0, e |-> 0]
  ELSE IF m % 10 = 0 THEN NormFloat(m \div 10, e + 1)
  ELSE [t |-> "float", m |-> m, e |-> e]

AllDigits(s) == \A i \in 1..Len(s) : IndexIn(DigitChars, CharAt(s, i)) # 0

RECURSIVE DigitsValue(_)
DigitsValue(s) ==
  IF Len(s) = 0 THEN 0
  ELSE 10 * DigitsValue(SubSeq(s, 1, Len(s) - 1)) + (IndexIn(DigitChars, CharAt(s, Len(s))) - 1)

HasSign(s) == Len(s) > 0 /\ (CharAt(s, 1) = "-" \/ CharAt(s, 1) = "+")
Unsigned(s) == IF HasSign(s) THEN SubSeq(s, 2, Len(s)) ELSE s
SignOf(s) == IF Len(s) > 0 /\ CharAt(s, 1) = "-" THEN -1 ELSE 1

ExpOk(s) == Len(Unsigned(s)) > 0 /\ AllDigits(Unsigned(s))
ExpValue(s) == SignOf(s) * DigitsValue(Unsigned(s))

\* the digits before and after the point, and the exponent
FloatOfDigits(sign, ip, fp, ex) ==
  IF AllDigits(ip) /\ AllDigits(fp) /\ Len(ip) + Len(fp) > 0
  THEN NormFloat(sign * DigitsValue(ip \o fp), ex - Len(fp))
  ELSE PyNone

\* mparts: the mantissa split at "."
FloatOfMantissa(sign, mparts, ex) ==
  IF Len(mparts) > 2 THEN PyNone
  ELSE FloatOfDigits(sign, mparts[1], IF Len(mparts) = 2 THEN mparts[2] ELSE "", ex)

\* parts: the lowercased text split at "e"
FloatOfParts(sign, parts) ==
  IF Len(parts) > 2 THEN PyNone
  ELSE IF Len(parts) = 2 /\ ~ExpOk(parts[2]) THEN PyNone
  ELSE FloatOfMantissa(sign, Split(parts[1], "."),
                       IF Len(parts) = 2 THEN ExpValue(parts[2]) ELSE 0)

FloatOfBody(sign, low) ==
  IF low = "nan" THEN FloatSpecial("nan")
  ELSE IF low = "inf" \/ low = "infinity"
       THEN FloatSpecial(IF sign = 1 THEN "inf" ELSE "-inf")
  ELSE FloatOfParts(sign, Split(low, "e"))

\* float(tok) for a token without whitespace: a float, or PyNone where
\* Python raises ValueError.  Digit-group underscores are not modelled.
ParseFloat(tok) == FloatOfBody(SignOf(tok), Lower(Unsigned(tok)))

(* ----------------------------- JSON values ---------------------------- *)

JNull == [t |-> "null"]
JStr(s) == [t |-> "str", s |-> s]
JNum(repr) == [t |-> "num", repr |-> repr]
JBool(b) == [t |-> "bool", b |-> b]
JList(items) == [t |-> "list", items |-> items]
JMap(f) == [t |-> "map", f |-> f]

\* the keys a node can carry, in document order
NodeKeys == <<"SensorId", "Value", "Max", "Children">>

HasKey(n, k) == k \in DOMAIN n.f

\* dict.get(k, default)
Get(n, k, default) == IF HasKey(n, k) THEN n.f[k] ELSE default

\* str(value): the text of a scalar; a list or mapping prints with its bracket first
PyStr(v) ==
  CASE v.t = "str" -> v.s
    [] v.t = "num" -> v.repr
    [] v.t = "bool" -> (IF v.b THEN "True" ELSE "False")
    [] v.t = "list" -> (IF Len(v.items) = 0 THEN "[]" ELSE "[...]")
    [] v.t = "map" -> (IF DOMAIN v.f = {} THEN "{}" ELSE "{...}")
    [] v.t = "null" -> "None"

\* bool(value)
Truthy(v) ==
  CASE v.t = "str" -> Len(v.s) > 0
    [] v.t = "num" -> ParseFloat(v.repr) # NormFloat(0, 0)
    [] v.t = "bool" -> v.b
    [] v.t = "list" -> Len(v.items) > 0
    [] v.t = "map" -> DOMAIN v.f # {}
    [] v.t = "null" -> FALSE

(* ------------------------------ the parser ---------------------------- *)

\* HardwareDataParser._extract_value: float(str(value).split()[0]);
\* ValueError and IndexError give None
FirstToken(toks) == IF Len(toks) = 0 THEN PyNone ELSE ParseFloat(toks[1])

ExtractValue(v) == IF v.t = "null" THEN PyNone ELSE FirstToken(SplitWs(PyStr(v)))

Categories == {"temperature", "power", "usage", "frequency", "memory", "network"}

\* the if/elif chain of _scan over the lowercased last segment; "" is the final else
Classify(sensor_type) ==
  IF Contains(sensor_type, "temperature") THEN "temperature"
  ELSE IF Contains(sensor_type, "power") THEN "power"
  ELSE IF Contains(sensor_type, "load") \/ Contains(sensor_type, "usage") THEN "usage"
  ELSE IF Contains(sensor_type, "clock") /\ ~StartsWith(sensor_type, "clock/0") THEN "frequency"
  ELSE IF Contains(sensor_type, "data") THEN "memory"
  ELSE IF Contains(sensor_type, "throughput") THEN "network"
  ELSE ""

\* PathParts with the strip left out: the split of the raw id
PathPartsNoStrip(sensor_id) == Split(sensor_id, "/")

\* sensor_id.strip("/").split("/")
PathParts(sensor_id) == Split(Strip(sensor_id, "/"), "/")

\* HardwareSensor(...); node is not a field of the dataclass: it records the
\* position in the input tree of the node the record was built from
HardwareSensor(id, hw_type, sensor_category, value, peak, node) ==
  [id |-> id, hw_type |-> hw_type, sensor_category |-> sensor_category,
   value |-> value, peak |-> peak, node |-> node]

\* The body of _scan up to the append, on the value n found at position path:
\*   "raise"  an AttributeError leaves _scan (n.get on a non-mapping,
\*            sensor_id.strip on a non-string)
\*   "return" one of the two early returns: no record, the children loop is not reached
\*   "skip"   the outer if is false: no record, the children loop runs
\*   "emit"   rec is appended, the children loop runs
\* VisitNode reads the fields, VisitFields is the outer if, VisitParts the test
\* of the path, VisitCategory the end of the if/elif chain and the append.
VisitCategory(id, hw_type, sensor_category, value, max_val, path) ==
  IF sensor_category = "" THEN [out |-> "return"]
  ELSE [out |-> "emit",
        rec |-> HardwareSensor(id, hw_type, sensor_category, value, max_val, path)]

VisitParts(id, parts, value, max_val, path) ==
  IF Len(parts) < 2 THEN [out |-> "return"]
  ELSE VisitCategory(id, Lower(parts[1]), Classify(Lower(parts[Len(parts)])),
                     value, max_val, path)

VisitFields(sensor_id, value, max_val, path) ==
  IF Truthy(sensor_id) /\ value # PyNone
  THEN IF sensor_id.t # "str" THEN [out |-> "raise"]
       ELSE VisitParts(sensor_id.s, PathParts(sensor_id.s), value, max_val, path)
  ELSE [out |-> "skip"]

VisitNode(n, path) ==
  IF n.t # "map" THEN [out |-> "raise"]
  ELSE VisitFields(Get(n, "SensorId", JStr("")), ExtractValue(Get(n, "Value", JNull)),
                   ExtractValue(Get(n, "Max", JNull)), path)

\* the characters of s, each a string value
RECURSIVE CharItems(_)
CharItems(s) ==
  IF Len(s) = 0 THEN <<>> ELSE <<JStr(CharAt(s, 1))>> \o CharItems(SubSeq(s, 2, Len(s)))

\* the keys of a mapping, in document order
RECURSIVE KeyItems(_, _)
KeyItems(n, i) ==
  IF i > Len(NodeKeys) THEN <<>>
  ELSE (IF HasKey(n, NodeKeys[i]) THEN <<JStr(NodeKeys[i])>> ELSE <<>>) \o KeyItems(n, i + 1)

\* what  for child in c  iterates over; null, numbers and booleans are not iterable
Iterable(c) == c.t \in {"list", "str", "map"}

IterItems(c) ==
  CASE c.t = "list" -> c.items
    [] c.t = "str" -> CharItems(c.s)
    [] c.t = "map" -> KeyItems(c, 1)
    [] OTHER -> <<>>

\* the children loop of a mapping n:  if "Children" in n: for child in n.get("Children", [])
HasChildren(n) == HasKey(n, "Children")
ChildItems(n) == IterItems(Get(n, "Children", JList(<<>>)))

\* the value at position path (the indices of the children taken from the root)
RECURSIVE NodeAt(_, _)
NodeAt(v, path) ==
  IF path = <<>> THEN v ELSE NodeAt(ChildItems(v)[Head(path)], Tail(path))

\* AppendSensor gone wrong: the record goes to the front of the list
PrependSensor(sensors, rec) == <<rec>> \o sensors

\* self.hardware_data["sensors"].append(...)
AppendSensor(sensors, rec) == Append(sensors, rec)

Frame(path, i) == [path |-> path, i |-> i]

StepResult(stk, sensors, exc) == [stack |-> stk, sensors |-> sensors, exc |-> exc]

\* after the body of _scan gave r on the mapping or value n: the append, and the
\* start of  if "Children" in n: for child in n.get("Children", [])
AfterVisit(path, rest, n, r, sensors) ==
  CASE r.out = "raise" -> StepResult(<<>>, sensors, "AttributeError")
    [] r.out = "return" -> StepResult(rest, sensors, "")
    [] r.out = "emit" ->
         IF ~HasChildren(n) THEN StepResult(rest, AppendSensor(sensors, r.rec), "")
         ELSE IF ~Iterable(n.f.Children)
              THEN StepResult(<<>>, AppendSensor(sensors, r.rec), "TypeError")
              ELSE StepResult(Append(rest, Frame(path, 1)), AppendSensor(sensors, r.rec), "")
    [] OTHER ->
         IF ~HasChildren(n) THEN StepResult(rest, sensors, "")
         ELSE IF ~Iterable(n.f.Children) THEN StepResult(<<>>, sensors, "TypeError")
              ELSE StepResult(Append(rest, Frame(path, 1)), sensors, "")

\* one turn of the loop of the frame at path, count children long: the call
\* _scan(child) for child i, or the end of the loop and of the frame
LoopTurn(path, i, rest, count, sensors) ==
  IF i > count THEN StepResult(rest, sensors, "")
  ELSE StepResult(rest \o <<Frame(path, i + 1), Frame(Append(path, i), 0)>>, sensors, "")

StepFrame(top, rest, n, sensors) ==
  IF top.i = 0 THEN AfterVisit(top.path, rest, n, VisitNode(n, top.path), sensors)
  ELSE LoopTurn(top.path, top.i, rest, Len(ChildItems(n)), sensors)

\* One step of the innermost _scan frame of a traversal of root, appending to the
\* list sensors.  A frame is the position of its node and i: 0 before the body
\* has run, then the number of the next child of the loop.  exc names the
\* exception that leaves the traversal.
ScanStep(root, stk, sensors) ==
  StepFrame(stk[Len(stk)], SubSeq(stk, 1, Len(stk) - 1),
            NodeAt(root, stk[Len(stk)].path), sensors)

\* the frames of r run to the end on a list no other call touches: the records
\* appended, and the exception that left the traversal, if one did
RECURSIVE RunScan(_, _)
RunScan(root, r) ==
  IF r.exc # "" THEN [raised |-> TRUE, exc |-> r.exc, sensors |-> r.sensors]
  ELSE IF r.stack = <<>> THEN [raised |-> FALSE, exc |-> "", sensors |-> r.sensors]
  ELSE RunScan(root, ScanStep(root, r.stack, r.sensors))

\* parse_data(node) on a parser no other call touches
ParseFresh(node) == RunScan(node, StepResult(<<Frame(<<>>, 0)>>, <<>>, ""))

(* ------------------------------- inputs ------------------------------- *)

Leaf(sid, val) == JMap([SensorId |-> JStr(sid), Value |-> JStr(val)])
Inner(sid, val, kids) ==
  JMap([SensorId |-> JStr(sid), Value |-> JStr(val), Children |-> JList(kids)])
Group(kids) == JMap([Children |-> JList(kids)])

E2ESingle ==
  JMap([SensorId |-> JStr("/cpu/0/temperature/2"), Value |-> JStr("45.2 °C"),
        Max |-> JStr("78.0 °C"), Children |-> JList(<<>>)])

E2ENested ==
  JMap([SensorId |-> JStr(""),
        Children |-> JList(<<Leaf("/mainboard/power/vcore", "1.2 V"),
                             JMap([SensorId |-> JStr("bad")])>>)])

\* root with children [A, B], A with child A1; every node passes the emission test
AllEmit ==
  JMap([SensorId |-> JStr("/CPU/Temperature"), Value |-> JStr("45.2 C"),
        Max |-> JStr("78.0 C"),
        Children |-> JList(<<Inner("/cpu/0/load", "12.5 %", <<Leaf("/cpu/0/power", "30 W")>>),
                             Leaf("/gpu/0/clock", "1500 MHz")>>)])

\* the sensors of AllEmit with later readings
AllEmitLater ==
  JMap([SensorId |-> JStr("/CPU/Temperature"), Value |-> JStr("50 C"),
        Max |-> JStr("78.0 C"),
        Children |-> JList(<<Inner("/cpu/0/load", "99 %", <<Leaf("/cpu/0/power", "35 W")>>),
                             Leaf("/gpu/0/clock", "1500 MHz")>>)])

ShortIdParent == Inner("bad", "1", <<Leaf("/cpu/temperature", "45")>>)

UnknownParent == Inner("/gpu/0/fanspeed", "1200 RPM", <<Leaf("/gpu/0/load", "50 %")>>)

NullChildren ==
  JMap([SensorId |-> JStr("/ram/data"), Value |-> JStr("3.5 GB"), Children |-> JNull])

NumberId ==
  Group(<<Leaf("/nic/throughput", "10"),
          JMap([SensorId |-> JNum("5"), Value |-> JStr("1")]),
          Leaf("/nic/0/throughput", "11")>>)

StringChild ==
  JMap([SensorId |-> JStr("/cpu/usage"), Value |-> JNum("3"),
        Children |-> JList(<<JStr("x")>>)])

SameKey ==
  Group(<<Leaf("/cpu/0/temperature", "40"), Leaf("/cpu/1/temperature", "41")>>)

ValueKinds ==
  Group(<<JMap([SensorId |-> JStr("/ram/data"), Value |-> JNum("37")]),
          Leaf("/nic/throughput", "abc"),
          Leaf("/cpu/usage", ""),
          JMap([SensorId |-> JStr("/cpu/temperatureload"), Value |-> JStr("3"),
                Max |-> JStr("abc")]),
          JMap([SensorId |-> JStr("/cpu/power"), Value |-> JBool(TRUE)])>>)

Trimmed ==
  Group(<<Leaf("/", "1"), Leaf("/cpu/", "1"), Leaf("cpu/temperature/", "1"),
          Leaf("//gpu//Clock", "2")>>)

ListRoot == JList(<<Leaf("/cpu/temperature", "45")>>)

\* the documents a call can be given
Trees ==
  <<E2ESingle, E2ENested, AllEmit, AllEmitLater, ShortIdParent, UnknownParent,
    NullChildren, NumberId, StringChild, SameKey, ValueKinds, Trimmed, ListRoot>>

TreeIds == 1..Len(Trees)

(* ------------------------------- bounds ------------------------------- *)

\* threads that call parse_data at the same time, and the parser objects they share
NumThreads == 2
NumParsers == 2
\* calls made one after the other on one parser
NumSeqCalls == 2
\* poll cycles after which the scheduler is no longer followed
MaxCycles == 3

MaxOf(a, b) == IF a >= b THEN a ELSE b
Procs == 1..MaxOf(NumThreads, NumSeqCalls)
Parsers == 1..NumParsers

(* -------------------------------- state ------------------------------- *)

VARIABLES
  heap,           \* the snapshot dicts built so far; a reference is an index, 0 is the {} of __init__
  hardware_data,  \* hardware_data[p]: the dict self.hardware_data of parser p refers to
  pc,             \* pc[t]: "idle", "scan", "done" (returned) or "raised"
  tree,           \* tree[t]: the document call t was given (0 before the call)
  parser,         \* parser[t]: the parser object call t runs on (0 before the call)
  stack,          \* stack[t]: the _scan frames of call t, innermost last
  result,         \* result[t]: the dict call t returned (0 while there is none)
  setup,          \* the config entry: "not_loaded", "retry" or "loaded"
  coordinator,    \* the DataUpdateCoordinator: data, last_update_success
  entities,       \* the HardwareMonitorSensor objects handed to async_add_entities
  cycles,         \* the refreshes run so far
  last            \* the input and the outcome of the latest async_update_data

parseVars == <<heap, hardware_data, pc, tree, parser, stack, result>>
pollVars == <<setup, coordinator, entities, cycles, last>>
vars == <<heap, hardware_data, pc, tree, parser, stack, result,
          setup, coordinator, entities, cycles, last>>

NoData == [timestamp |-> 0, sensors |-> <<>>, none |-> TRUE]
NoCycle == [error |-> "", status |-> 0, body |-> 0, kind |-> "", exc |-> "", data |-> NoData]

Init ==
  /\ heap = <<>>
  /\ hardware_data = [p \in Parsers |-> 0]
  /\ pc = [t \in Procs |-> "idle"]
  /\ tree = [t \in Procs |-> 0]
  /\ parser = [t \in Procs |-> 0]
  /\ stack = [t \in Procs |-> <<>>]
  /\ result = [t \in Procs |-> 0]
  /\ setup = "not_loaded"
  /\ coordinator = [data |-> NoData, last_update_success |-> TRUE]
  /\ entities = <<>>
  /\ cycles = 0
  /\ last = NoCycle

(* ----------------------- parse_data, step by step ---------------------- *)

\* ResetData gone wrong: the dict is built once and kept by later calls
ResetDataOnce(h, old) ==
  IF old # 0 THEN [heap |-> h, ref |-> old]
  ELSE [heap |-> Append(h, [timestamp |-> Len(h) + 1, sensors |-> <<>>]), ref |-> Len(h) + 1]

\* self.hardware_data = {"timestamp": ..., "sensors": []}: a new dict with a new
\* list, whatever self.hardware_data (old) referred to; the timestamp is the
\* call's place in the order of the calls
ResetData(h, old) ==
  [heap |-> Append(h, [timestamp |-> Len(h) + 1, sensors |-> <<>>]), ref |-> Len(h) + 1]

\* parse_data up to the call _scan(node); d is the new dict
CallWith(t, k, p, d) ==
  /\ heap' = d.heap
  /\ hardware_data' = [hardware_data EXCEPT ![p] = d.ref]
  /\ pc' = [pc EXCEPT ![t] = "scan"]
  /\ tree' = [tree EXCEPT ![t] = k]
  /\ parser' = [parser EXCEPT ![t] = p]
  /\ stack' = [stack EXCEPT ![t] = <<Frame(<<>>, 0)>>]
  /\ UNCHANGED <<result, pollVars>>

Call(t, k, p) ==
  /\ pc[t] = "idle"
  /\ CallWith(t, k, p, ResetData(heap, hardware_data[p]))

\* the outcome r of a step of call t, on the list ref
ApplyStep(t, ref, r) ==
  /\ heap' = [heap EXCEPT ![ref].sensors = r.sensors]
  /\ stack' = [stack EXCEPT ![t] = r.stack]
  /\ pc' = IF r.exc # "" THEN [pc EXCEPT ![t] = "raised"] ELSE pc
  /\ UNCHANGED <<hardware_data, tree, parser, result, pollVars>>

\* a step of call t: its innermost frame, on the list self.hardware_data of its
\* parser refers to when the step runs
Step(t) ==
  ApplyStep(t, hardware_data[parser[t]],
            ScanStep(Trees[tree[t]], stack[t], heap[hardware_data[parser[t]]].sensors))

\* _scan(n) from its first line to the start of the children loop
Visit(t) ==
  /\ pc[t] = "scan" /\ stack[t] # <<>> /\ stack[t][Len(stack[t])].i = 0
  /\ Step(t)

\* one turn of  for child in n.get("Children", []): _scan(child)
Loop(t) ==
  /\ pc[t] = "scan" /\ stack[t] # <<>> /\ stack[t][Len(stack[t])].i > 0
  /\ Step(t)

\* return self.hardware_data
Return(t) ==
  /\ pc[t] = "scan" /\ stack[t] = <<>>
  /\ result' = [result EXCEPT ![t] = hardware_data[parser[t]]]
  /\ pc' = [pc EXCEPT ![t] = "done"]
  /\ UNCHANGED <<heap, hardware_data, tree, parser, stack, pollVars>>

Running(t) == pc[t] = "scan"

\* a call made when no other call is running, on the one parser
CallSeq(t, k) ==
  /\ \A u \in Procs : ~Running(u)
  /\ IF t = 1 THEN TRUE ELSE pc[t - 1] # "idle"
  /\ Call(t, k, 1)

\* threads calling parse_data on parsers they may share
Next ==
  \E t \in 1..NumThreads :
    \/ \E k \in TreeIds, p \in Parsers : Call(t, k, p)
    \/ Visit(t)
    \/ Loop(t)
    \/ Return(t)

Spec == Init /\ [][Next]_vars

\* calls made one after the other on one parser
NextSeq ==
  \E t \in 1..NumSeqCalls :
    \/ \E k \in TreeIds : CallSeq(t, k)
    \/ Visit(t)
    \/ Loop(t)
    \/ Return(t)

SpecSeq == Init /\ [][NextSeq]_vars

(* --------------------- the poll cycle and the entities ----------------- *)

\* What one GET can bring: error is the exception session.get raises ("" when it
\* returns), status the HTTP status, body the document response.json() decodes to
\* (an index of Trees; 0 when json() raises)
FetchCase(error, status, body) == [error |-> error, status |-> status, body |-> body]

Inputs ==
  {FetchCase("TimeoutError", 0, 0), FetchCase("ClientError", 0, 0),
   FetchCase("", 404, 0), FetchCase("", 500, 0), FetchCase("", 200, 0)}
  \cup {FetchCase("", 200, k) : k \in TreeIds}

Raise(exc) == [kind |-> "raise", exc |-> exc, data |-> NoData]
ReturnData(d) == [kind |-> "return", exc |-> "", data |-> d]

\* the end of the try block: parse_data gave r
ParseOutcome(r, now) ==
  IF r.raised THEN Raise(r.exc)
  ELSE ReturnData([timestamp |-> now, sensors |-> r.sensors, none |-> FALSE])

\* the try block of async_update_data at time now: a fresh parser per cycle
TryBody(inp, now) ==
  IF inp.error # "" THEN Raise(inp.error)
  ELSE IF inp.status # 200 THEN Raise("UpdateFailed")
  ELSE IF inp.body = 0 THEN Raise("JSONDecodeError")
  ELSE ParseOutcome(ParseFresh(Trees[inp.body]), now)

\* the classes above that derive from Exception: all of them
ExceptionClasses ==
  {"TimeoutError", "ClientError", "UpdateFailed", "JSONDecodeError",
   "AttributeError", "TypeError"}

\* Caught narrowed: a handler for the fetch errors only
CaughtFetchOnly(exc) == exc \in {"TimeoutError", "ClientError"}

\* except Exception as e
Caught(exc) == exc \in ExceptionClasses

\* the handler of async_update_data, on the outcome r of the try block
Handle(r) == IF r.kind = "raise" /\ Caught(r.exc) THEN Raise("UpdateFailed") ELSE r

\* async_update_data: the try block, and the handler that raises UpdateFailed
AsyncUpdateData(inp, now) == Handle(TryBody(inp, now))

Last(seq) == seq[Len(seq)]

EntityOf(sensor_data, key) ==
  [sensor |-> sensor_data, key |-> key, unique_id |-> "hardware_monitor_" \o key]

\* HardwareMonitorSensor.__init__: _sensor, _key and _attr_unique_id
HardwareMonitorSensor(sensor_data) ==
  EntityOf(sensor_data,
           sensor_data.hw_type \o "_" \o sensor_data.sensor_category \o "_"
             \o Last(Split(sensor_data.id, "/")))

\* the properties available and state of an entity
Available(e) == coordinator.last_update_success
State(e) == e.sensor.value

CycleRecord(inp, r) ==
  [error |-> inp.error, status |-> inp.status, body |-> inp.body,
   kind |-> r.kind, exc |-> r.exc, data |-> r.data]

\* the first refresh gave r
SetupWith(inp, r) ==
  /\ last' = CycleRecord(inp, r)
  /\ IF r.kind = "return"
     THEN /\ coordinator' = [data |-> r.data, last_update_success |-> TRUE]
          /\ entities' = [i \in 1..Len(r.data.sensors) |->
                            HardwareMonitorSensor(r.data.sensors[i])]
          /\ setup' = "loaded"
     ELSE /\ coordinator' = [data |-> NoData, last_update_success |-> FALSE]
          /\ entities' = <<>>
          /\ setup' = "retry"
  /\ cycles' = cycles + 1
  /\ UNCHANGED parseVars

\* async_setup_entry: the first refresh, then one entity per sensor of its
\* Snapshot.  A failed first refresh ends the setup (ConfigEntryNotReady) with no
\* entity; the host sets the entry up again later.
SetupEntry(inp) ==
  /\ setup \in {"not_loaded", "retry"}
  /\ cycles < MaxCycles
  /\ SetupWith(inp, AsyncUpdateData(inp, cycles + 1))

\* the refresh gave r
PollWith(inp, r) ==
  /\ last' = CycleRecord(inp, r)
  /\ coordinator' = IF r.kind = "return"
                    THEN [data |-> r.data, last_update_success |-> TRUE]
                    ELSE [coordinator EXCEPT !.last_update_success = FALSE]
  /\ cycles' = cycles + 1
  /\ UNCHANGED <<entities, setup, parseVars>>

\* a scheduled refresh of the coordinator: update_method is async_update_data; a
\* Snapshot returned becomes coordinator.data, an exception leaves data as it was
\* and clears last_update_success.  The entities are not touched.
PollCycle(inp) ==
  /\ setup = "loaded"
  /\ cycles < MaxCycles
  /\ PollWith(inp, AsyncUpdateData(inp, cycles + 1))

NextPoll == \E inp \in Inputs : SetupEntry(inp) \/ PollCycle(inp)

SpecPoll == Init /\ [][NextPoll]_vars

(* ------------------------------ properties ---------------------------- *)

Done(t) == pc[t] = "done"
SensorsOf(t) == heap[result[t]].sensors
SeqCalls == 1..NumSeqCalls
TreeId(v) == CHOOSE k \in TreeIds : Trees[k] = v

\* the fields of the HardwareSensor dataclass
Fields(rec) ==
  [id |-> rec.id, hw_type |-> rec.hw_type, sensor_category |-> rec.sensor_category,
   value |-> rec.value, peak |-> rec.peak]

\* the positions of the nodes of a document: the root and, below a mapping
\* whose Children is a list, the nodes of its items
RECURSIVE TreeNodes(_, _)
TreeNodes(v, path) ==
  {path} \cup
    (IF v.t = "map" /\ HasChildren(v) /\ v.f.Children.t = "list"
     THEN UNION {TreeNodes(v.f.Children.items[i], Append(path, i)) :
                   i \in 1..Len(v.f.Children.items)}
     ELSE {})

MatchesCategory(seg) ==
  \E pat \in {"temperature", "power", "load", "usage", "clock", "data", "throughput"} :
    Contains(seg, pat)

\* the emission rule: a non-empty SensorId of at least 2 segments after the
\* trim, a Value that coerces, a last segment that matches a category pattern
ShouldEmit(n) ==
  /\ n.t = "map"
  /\ HasKey(n, "SensorId") /\ n.f.SensorId.t = "str" /\ n.f.SensorId.s # ""
  /\ Len(Split(Strip(n.f.SensorId.s, "/"), "/")) >= 2
  /\ HasKey(n, "Value") /\ ExtractValue(n.f.Value) # PyNone
  /\ MatchesCategory(Lower(Last(Split(Strip(n.f.SensorId.s, "/"), "/"))))

RecordsOf(sensors, path) == {i \in 1..Len(sensors) : sensors[i].node = path}

\* C1: in the list a call returns, every node of the input tree, whatever its
\* ancestors are, has exactly one record if it passes the emission rule and
\* none otherwise.
C1_EveryNodeJudged ==
  \A t \in SeqCalls :
    Done(t) =>
      \A path \in TreeNodes(Trees[tree[t]], <<>>) :
        Cardinality(RecordsOf(SensorsOf(t), path))
          = IF ShouldEmit(NodeAt(Trees[tree[t]], path)) THEN 1 ELSE 0

\* C2: a call whose root is a mapping never raises, however malformed the
\* nodes of the tree are.
C2_NeverRaises ==
  \A t \in SeqCalls :
    (tree[t] # 0 /\ Trees[tree[t]].t = "map") => pc[t] # "raised"

\* C3: the end-to-end scenarios: the single temperature node gives exactly one
\* record (cpu, temperature, 45.2, peak 78.0), and the nested document gives
\* exactly one record, for the vcore node (power, 1.2).
C3_EndToEnd ==
  \A t \in SeqCalls :
    Done(t) =>
      /\ tree[t] = TreeId(E2ESingle) =>
           /\ Len(SensorsOf(t)) = 1
           /\ Fields(SensorsOf(t)[1])
                = [id |-> "/cpu/0/temperature/2", hw_type |-> "cpu",
                   sensor_category |-> "temperature",
                   value |-> [t |-> "float", m |-> 452, e |-> -1],
                   peak |-> [t |-> "float", m |-> 78, e |-> 0]]
      /\ tree[t] = TreeId(E2ENested) =>
           /\ Len(SensorsOf(t)) = 1
           /\ SensorsOf(t)[1].id = "/mainboard/power/vcore"
           /\ SensorsOf(t)[1].sensor_category = "power"
           /\ SensorsOf(t)[1].value = [t |-> "float", m |-> 12, e |-> -1]

\* C4: every record of a returned Snapshot has a non-empty id, a non-empty
\* hw_type that is the lowercased first segment of the trimmed id, a category
\* of the closed set and a value that is not None.
C4_RecordsWellFormed ==
  \A t \in SeqCalls :
    Done(t) =>
      \A i \in 1..Len(SensorsOf(t)) :
        /\ SensorsOf(t)[i].id # ""
        /\ SensorsOf(t)[i].hw_type # ""
        /\ SensorsOf(t)[i].hw_type = Lower(Split(Strip(SensorsOf(t)[i].id, "/"), "/")[1])
        /\ SensorsOf(t)[i].sensor_category \in Categories
        /\ SensorsOf(t)[i].value # PyNone

\* a returned Snapshot with a record whose id needed the trim and the
\* lowercasing, and whose peak is None
C4_Witness ==
  \E t \in SeqCalls :
    /\ Done(t)
    /\ \E i \in 1..Len(SensorsOf(t)) :
         /\ SensorsOf(t)[i].id = "//gpu//Clock"
         /\ SensorsOf(t)[i].hw_type = "gpu"
         /\ SensorsOf(t)[i].peak = PyNone

\* C5: when calls run at the same time, also on one parser object, every call
\* returns exactly the records of its own input tree, in its own order.
C5_ConcurrentCallsIsolated ==
  \A t \in 1..NumThreads :
    Done(t) => SensorsOf(t) = ParseFresh(Trees[tree[t]]).sensors

\* C6: after a failed cycle every entity is unavailable and its state is the
\* value its sensor has in the most recent successful Snapshot; after a
\* successful cycle it is available.
C6_LastKnownValue ==
  (setup = "loaded" /\ cycles > 0) =>
    \A i \in 1..Len(entities) :
      /\ last.kind = "return" => Available(entities[i])
      /\ last.kind = "raise" =>
           /\ ~Available(entities[i])
           /\ \A j \in 1..Len(coordinator.data.sensors) :
                coordinator.data.sensors[j].id = entities[i].sensor.id
                  => State(entities[i]) = coordinator.data.sensors[j].value

\* C7: a poll cycle ends in one of two ways: it returns the complete Snapshot
\* of the body (status 200, body decoded, parse finished), or it raises
\* UpdateFailed and returns nothing; every other case of the fetch, the
\* decoding or the parse is the second.  What the coordinator holds is the
\* complete Snapshot of some body.
C7_CycleOutcome ==
  cycles > 0 =>
    /\ last.kind \in {"return", "raise"}
    /\ (last.kind = "return")
         = (/\ last.error = "" /\ last.status = 200 /\ last.body # 0
            /\ ~ParseFresh(Trees[last.body]).raised)
    /\ last.kind = "raise" => (last.exc = "UpdateFailed" /\ last.data = NoData)
    /\ last.kind = "return" =>
         /\ last.data.sensors = ParseFresh(Trees[last.body]).sensors
         /\ coordinator.data = last.data
    /\ coordinator.data # NoData =>
         \E k \in TreeIds :
           /\ ~ParseFresh(Trees[k]).raised
           /\ coordinator.data.sensors = ParseFresh(Trees[k]).sensors

\* a cycle whose parse raised after it had appended a record, while the
\* coordinator holds the Snapshot of an earlier cycle
C7_Witness ==
  /\ cycles > 0
  /\ last.kind = "raise" /\ last.error = "" /\ last.status = 200 /\ last.body # 0
  /\ ParseFresh(Trees[last.body]).sensors # <<>>
  /\ coordinator.data # NoData
  /\ coordinator.data.sensors # <<>>

IsPrefix(a, b) == Len(a) < Len(b) /\ SubSeq(b, 1, Len(a)) = a

\* the node at a comes before the node at b in depth-first pre-order: a is an
\* ancestor of b, or where the two positions part a takes the earlier child
PreOrderBefore(a, b) ==
  \/ IsPrefix(a, b)
  \/ \E i \in 1..Len(a) :
       /\ i <= Len(b)
       /\ SubSeq(a, 1, i - 1) = SubSeq(b, 1, i - 1)
       /\ a[i] < b[i]

\* C8: the list a call returns is in depth-first pre-order of the input tree:
\* of any two records the earlier one is of the node that comes first, so no
\* node has two records.
C8_PreOrder ==
  \A t \in SeqCalls :
    Done(t) =>
      \A i, j \in 1..Len(SensorsOf(t)) :
        i < j => PreOrderBefore(SensorsOf(t)[i].node, SensorsOf(t)[j].node)

\* a returned list with the records of a root, its first child, that child's
\* child and the second child
C8_Witness ==
  \E t \in SeqCalls :
    /\ Done(t)
    /\ Len(SensorsOf(t)) = 4
    /\ SensorsOf(t)[1].node = <<>>
    /\ SensorsOf(t)[3].node = <<1, 1>>
    /\ SensorsOf(t)[4].node = <<2>>

\* C9: of calls made one after the other on one parser, every one returns the
\* list a fresh parser returns for its tree, also after a call that raised
\* part-way; every call returns a dict of its own, and a list returned earlier
\* stays as it was.
C9_NoStateAcrossCalls ==
  \A t \in SeqCalls :
    Done(t) =>
      /\ SensorsOf(t) = ParseFresh(Trees[tree[t]]).sensors
      /\ \A u \in SeqCalls : (u # t /\ Done(u)) => result[u] # result[t]

\* a call that raised after it had appended a record, then a call on the same
\* parser that returned records
C9_Witness ==
  /\ pc[1] = "raised" /\ heap[1].sensors # <<>>
  /\ Done(2) /\ SensorsOf(2) # <<>>

\* C10: entities made from records with different ids have different unique ids.
C10_UniqueIds ==
  \A i, j \in 1..Len(entities) :
    entities[i].sensor.id # entities[j].sensor.id
      => entities[i].unique_id # entities[j].unique_id

====
